---- MODULE Spec2Model ----
(***************************************************************************)
(* Fuzzy student-performance engine of src/Fastapi/app/fuzzy_system.py and *)
(* the request paths of src/Fastapi/app/api_router.py that reach it.       *)
(*                                                                         *)
(* Numbers.  Python floats are modelled as exact fixed-point rationals:    *)
(*   - a crisp input value is a whole number of ticks, Res ticks per unit  *)
(*     (Res = 500, so 24999 ticks is 49.998);                              *)
(*   - an input membership / rule strength is a whole number of 1/MuOne;   *)
(*   - an output membership sample is a whole number of 1/OutScale, and    *)
(*     the aggregated output set lives on abscissae of 1/8 unit (XS = 8),  *)
(*     which is exactly where the library's upsampled universe falls when  *)
(*     every cut is a multiple of 1/40 (inputs that are multiples of 1.25);*)
(*   - a defuzzified score is the pair [num, den].                         *)
(***************************************************************************)
EXTENDS Integers, Sequences, FiniteSets, TLC

\* ------------------------------------------------------------------------
\* Fixed-point scales of the model arithmetic (not program constants).
Res      == 5 * 100          \* ticks per unit of an input value
InScale  == 5 * 10           \* input membership samples are k/50
MuOne    == InScale * Res    \* membership 1.0 of an interpolated input value
OutScale == 12 * 10          \* output membership samples are k/120
XS       == 2 * 4            \* abscissae of the aggregated set: 1/8 units
YS       == OutScale * XS    \* ordinates of the aggregated set
CutUnit  == MuOne \div 40    \* a strength of 1/40 in 1/MuOne

\* Python None where a number may stand (stored inputs are clipped to the
\* universe and memberships are never negative) and where a score may stand
None == 0 - 1
NoScore == [num |-> 0, den |-> 0]

\* ------------------------------------------------------------------------
\* Variables and membership functions (fuzzy_system.py:7-23)

\* input_range = np.arange(0, 101, 1)
UniverseMax == 100
input_range == 0 .. UniverseMax

VarNames == <<"attendance", "test_score", "assignment_score", "ethics", "cognitive">>
NVars == Len(VarNames)

terms == <<"low", "medium", "high">>
out_terms == <<"weak", "average", "good", "excellent">>

\* (mutant) the peak left to the two slopes: a shoulder (a = b or b = c)
\* has no slope on that side and its peak sample comes out 0
trimfOpen(x, abc, scale) ==
    LET a == abc[1]
        b == abc[2]
        c == abc[3]
    IN  IF a /= b /\ a < x /\ x <= b THEN (scale * (x - a)) \div (b - a)
        ELSE IF b /= c /\ b < x /\ x < c THEN (scale * (c - x)) \div (c - b)
        ELSE 0

\* fuzz.trimf(x, [a, b, c]) at one sample x of the universe, in 1/scale
trimf(x, abc, scale) ==
    LET a == abc[1]
        b == abc[2]
        c == abc[3]
    IN  IF x = b THEN scale
        ELSE IF a /= b /\ a < x /\ x < b THEN (scale * (x - a)) \div (b - a)
        ELSE IF b /= c /\ b < x /\ x < c THEN (scale * (c - x)) \div (c - b)
        ELSE 0

\* (mutant) low ends at 25, where medium begins: no term covers 25
InputShapeGap(t) ==
    CASE t = "low"    -> <<0, 0, 25>>
      [] t = "medium" -> <<25, 50, 75>>
      [] t = "high"   -> <<50, 100, 100>>

\* var['low'], var['medium'], var['high'] for the five inputs
InputShape(t) ==
    CASE t = "low"    -> <<0, 0, 50>>
      [] t = "medium" -> <<25, 50, 75>>
      [] t = "high"   -> <<50, 100, 100>>

\* (mutant) excellent as a triangle over 60 .. 100 with its peak at 80
OutputShapeWide(t) ==
    CASE t = "weak"      -> <<0, 0, 40>>
      [] t = "average"   -> <<35, 50, 65>>
      [] t = "good"      -> <<60, 75, 85>>
      [] t = "excellent" -> <<60, 80, 100>>

\* performance['weak'] .. performance['excellent']
OutputShape(t) ==
    CASE t = "weak"      -> <<0, 0, 40>>
      [] t = "average"   -> <<35, 50, 65>>
      [] t = "good"      -> <<60, 75, 85>>
      [] t = "excellent" -> <<80, 100, 100>>

\* the sampled membership arrays term.mf
InputMF == [t \in {"low", "medium", "high"} |->
              [x \in input_range |-> trimf(x, InputShape(t), InScale)]]

OutputMF == [t \in {"weak", "average", "good", "excellent"} |->
              [x \in input_range |-> trimf(x, OutputShape(t), OutScale)]]

\* fuzz.interp_membership(x, mf, value): np.interp between the integer
\* samples, 0 outside the universe.  p is the abscissa in 1/res units and the
\* result is in 1/(scale of mf * res).
interp_membership(mf, p, res) ==
    IF p < 0 \/ p > UniverseMax * res THEN 0
    ELSE LET i == p \div res
             f == p % res
         IN  IF f = 0 THEN mf[i] * res
             ELSE mf[i] * res + (mf[i + 1] - mf[i]) * f

Min(a, b) == IF a <= b THEN a ELSE b
Max(a, b) == IF a >= b THEN a ELSE b

\* ------------------------------------------------------------------------
\* Rule base (fuzzy_system.py:74-100)

\* (mutant) the first position varies fastest
RECURSIVE productFirstFastest(_, _)
productFirstFastest(pool, n) ==
    IF n = 0 THEN << <<>> >>
    ELSE LET prev == productFirstFastest(pool, n - 1)
             k == Len(pool)
         IN  [i \in 1 .. Len(prev) * k |->
                 <<pool[((i - 1) % k) + 1]>> \o prev[((i - 1) \div k) + 1]]

\* itertools.product(pool, repeat=n): last position varies fastest
RECURSIVE product(_, _)
product(pool, n) ==
    IF n = 0 THEN << <<>> >>
    ELSE LET prev == product(pool, n - 1)
             k == Len(pool)
         IN  [i \in 1 .. Len(prev) * k |->
                 Append(prev[((i - 1) \div k) + 1], pool[((i - 1) % k) + 1])]

\* combo.count(t)
count(combo, t) == Cardinality({i \in 1 .. Len(combo) : combo[i] = t})

\* (mutant) the test for good placed before the test for excellent
ConsequentGoodFirst(combo) ==
    LET high_count == count(combo, "high")
        medium_count == count(combo, "medium")
    IN  IF high_count >= 3 THEN "good"
        ELSE IF high_count >= 4 THEN "excellent"
        ELSE IF medium_count >= 3 THEN "average"
        ELSE "weak"

\* (mutant) the branch for medium_count left out
ConsequentNoAverage(combo) ==
    LET high_count == count(combo, "high")
    IN  IF high_count >= 4 THEN "excellent"
        ELSE IF high_count >= 3 THEN "good"
        ELSE "weak"

\* the if/elif chain choosing perf
Consequent(combo) ==
    LET high_count == count(combo, "high")
        medium_count == count(combo, "medium")
    IN  IF high_count >= 4 THEN "excellent"
        ELSE IF high_count >= 3 THEN "good"
        ELSE IF medium_count >= 3 THEN "average"
        ELSE "weak"

\* ctrl.Rule(antecedent_expr, perf): antecedent_terms in variable order
Rule(combo) == [antecedent |-> combo, consequent |-> Consequent(combo)]

\* (mutant) product(terms, repeat=4): one variable short
BuildRulesShort ==
    LET combos == product(terms, NVars - 1)
    IN  [i \in 1 .. Len(combos) |-> Rule(combos[i])]

\* the module-level loop filling `rules`
BuildRules ==
    LET combos == product(terms, NVars)
    IN  [i \in 1 .. Len(combos) |-> Rule(combos[i])]

\* ------------------------------------------------------------------------
\* State

VARIABLES
    rules,      \* the module-level list `rules` (fuzzy_system.py:77)
    current,    \* skfuzzy: antecedent.input['current'], shared by every
                \* simulation of the five module-level Antecedent objects
    simdata,    \* skfuzzy: the StatePerSimulation entries of the shared
                \* variables and terms, keyed by a simulation's unique_id
    log,        \* the requests handled so far, with their responses
    th,         \* threads inside evaluate_score (thread-pool callers)
    arg, ret    \* argument and return value of a helper applied on its own

vars == <<rules, current, simdata, log, th, arg, ret>>

\* ------------------------------------------------------------------------
\* Helper functions (fuzzy_system.py:102-124)

\* a score is the exact rational num/den, den > 0
Score(num, den) == [num |-> num, den |-> den]

\* (mutant) <= at the thresholds
get_performance_level_le(score) ==
    IF score.num <= 40 * score.den THEN "Weak"
    ELSE IF score.num <= 65 * score.den THEN "Average"
    ELSE IF score.num <= 85 * score.den THEN "Good"
    ELSE "Excellent"

get_performance_level(score) ==
    IF score.num < 40 * score.den THEN "Weak"
    ELSE IF score.num < 65 * score.den THEN "Average"
    ELSE IF score.num < 85 * score.den THEN "Good"
    ELSE "Excellent"

SetMin(S) == CHOOSE x \in S : \A y \in S : x <= y
SetMax(S) == CHOOSE x \in S : \A y \in S : y <= x

\* e is evaluated once and Body applied to its value (a strict LET)
With(e, Body(_)) == CHOOSE r \in {Body(x) : x \in {e}} : TRUE

\* (mutant) every term looked up at the value of the first variable
compute_rule_strength_first(rule, inputs) ==
    SetMin({MuOne} \cup
           {interp_membership(InputMF[rule.antecedent[k]],
                              inputs[VarNames[1]], Res) :
               k \in 1 .. Len(rule.antecedent)})

\* compute_rule_strength: strength starts at 1.0 and takes the min with the
\* membership of each antecedent term at the value filed under the name of
\* the term's variable
compute_rule_strength(rule, inputs) ==
    SetMin({MuOne} \cup
           {interp_membership(InputMF[rule.antecedent[k]],
                              inputs[VarNames[k]], Res) :
               k \in 1 .. Len(rule.antecedent)})

\* rule_to_text: the text is determined by the (variable, term) pairs in
\* antecedent order and the consequent term
rule_to_text(rule) == <<rule.antecedent, rule.consequent>>

\* round(n/d) to the nearest integer, ties to the even one (Python round)
RoundHalfEven(n, d) ==
    LET q == n \div d
        r == n % d
    IN  IF 2 * r < d THEN q
        ELSE IF 2 * r > d THEN q + 1
        ELSE IF q % 2 = 0 THEN q ELSE q + 1

\* round(float(strength), 4), in 1/10000
RoundStrength(strength) == RoundHalfEven(strength * 10000, MuOne)

\* round(final_score, 2), in 1/100 (the integer part is split off first so
\* that the products stay small)
RoundScore(score) ==
    LET ip == score.num \div score.den
        r == score.num % score.den
    IN  ip * 100 + RoundHalfEven(r * 100, score.den)

\* ------------------------------------------------------------------------
\* skfuzzy control system behind sim = ControlSystemSimulation(...),
\* sim.input[...] = ..., sim.compute() and sim.output[...]
\* (fuzzy_system.py:100 and 128-135).  A library state is the record
\* [current, simdata]; a simulation object is the record [uid, output].

VarSet == {VarNames[k] : k \in 1 .. NVars}
OutSet == {out_terms[k] : k \in 1 .. Len(out_terms)}

Lib(cur, data) == [current |-> cur, simdata |-> data]

\* (mutant) the id of the control system alone, the inputs left out
UniqueIdCtrlOnly(cur) == [v \in VarSet |-> None]

\* ControlSystemSimulation._update_unique_id: the id of the control system
\* and a hash of the 'current' inputs; the hash is taken to be injective
UniqueId(cur) == cur

\* a StatePerSimulation entry that has not been written yet reads as None
NoEntry == [input |-> [v \in VarSet |-> None],
            cut |-> [t \in OutSet |-> None],
            output |-> NoScore]

Entry(data, uid) == IF uid \in DOMAIN data THEN data[uid] ELSE NoEntry

Store(data, uid, e) ==
    [u \in DOMAIN data \cup {uid} |-> IF u = uid THEN e ELSE data[u]]

\* _InputAcceptor._update_to_current: antecedent.input[sim] takes
\* antecedent.input['current'] for every antecedent
UpdateToCurrent(lib, uid) ==
    Lib(lib.current,
        Store(lib.simdata, uid,
              [Entry(lib.simdata, uid) EXCEPT !.input = lib.current]))

\* ControlSystemSimulation(PERFORMANCE_CTRL)
NewSimulation(lib) == [uid |-> UniqueId(lib.current), output |-> NoScore]

\* clip_to_bounds (the default): the value is forced into the universe
ClipToBounds(value) == Max(Min(value, UniverseMax * Res), 0)

\* _InputAcceptor.__setitem__: sim.input[name] = value
SetInput(lib, sim, name, value) ==
    LET cur == [lib.current EXCEPT ![name] = ClipToBounds(value)]
        uid == UniqueId(cur)
    IN  [lib |-> UpdateToCurrent(Lib(cur, lib.simdata), uid),
         sim |-> [sim EXCEPT !.uid = uid]]

\* CrispValueCalculator.fuzz for the five antecedents:
\* term.membership_value[sim] of every input term
Fuzzify(input) ==
    [v \in VarSet |->
        [t \in DOMAIN InputMF |-> interp_membership(InputMF[t], input[v], Res)]]

\* rule.antecedent.membership_value[sim]: the AND of the five terms (fmin)
AggregateFiring(rule, mu) ==
    SetMin({mu[VarNames[k]][rule.antecedent[k]] :
               k \in 1 .. Len(rule.antecedent)})

\* ControlSystemSimulation.compute_rule over all rules: each activation is
\* accumulated into its consequent term with max (accumulation_max), on top
\* of what the term holds when the rules start; a term no rule names and
\* nothing was stored for stays None
ComputeRules(rs, mu, cut) ==
    With([i \in 1 .. Len(rs) |-> AggregateFiring(rs[i], mu)], LAMBDA firing :
        [t \in OutSet |->
            With({firing[i] : i \in {j \in 1 .. Len(rs) : rs[j].consequent = t}}
                   \cup (IF cut[t] = None THEN {} ELSE {cut[t]}),
                 LAMBDA held : IF held = {} THEN None ELSE SetMax(held))])

\* only the consequent term of the first rule is cleared before the rules
\* run; the other terms keep what this unique_id stored before
ClearFirst(rs, cut) ==
    IF Len(rs) = 0 THEN cut ELSE [cut EXCEPT ![rs[1].consequent] = None]

\* a stored cut (in 1/MuOne) as a level of the output samples (1/OutScale);
\* exact for the cuts k/40 that inputs on the 1.25-unit grid produce
CutLevel(cut) == (cut \div CutUnit) * (OutScale \div 40)

Abs(n) == IF n < 0 THEN -n ELSE n

\* _interp_universe_fast(universe, mf, y): the abscissae (in 1/XS) at which
\* the sampled mf crosses the level y (y in 1/OutScale)
InterpUniverse(mf, y) ==
    LET crosses(i) == IF y = 0 THEN (mf[i] > y) /= (mf[i + 1] > y)
                      ELSE (mf[i] >= y) /= (mf[i + 1] >= y)
    IN  {i * XS + (XS * Abs(y - mf[i])) \div Abs(mf[i + 1] - mf[i]) :
            i \in {j \in 0 .. UniverseMax - 1 : crosses(j)}}

\* CrispValueCalculator.find_memberships: the upsampled universe (sorted,
\* in 1/XS) and the aggregated output set on it (in 1/YS)
NewUniverse(cut) ==
    LET new_values == UNION {InterpUniverse(OutputMF[t], CutLevel(cut[t])) :
                                t \in {o \in OutSet : cut[o] /= None}}
    IN  SelectSeq([i \in 1 .. UniverseMax * XS + 1 |-> i - 1],
                  LAMBDA u : u % XS = 0 \/ u \in new_values)

OutputAt(cut, u) ==
    SetMax({0} \cup {Min(CutLevel(cut[t]) * XS,
                         interp_membership(OutputMF[t], u, XS)) :
                        t \in {o \in OutSet : cut[o] /= None}})

\* skfuzzy.defuzzify.centroid: segment by segment, 6 * moment * area and
\* 2 * area of the polygon (x in 1/XS, mfx in 1/YS), summed
SegMoment6(x1, x2, y1, y2) ==
    IF (y1 = 0 /\ y2 = 0) \/ x1 = x2 THEN 0
    ELSE IF y1 = y2 THEN 3 * (x1 + x2) * (x2 - x1) * y1
    ELSE IF y1 = 0 THEN (2 * (x2 - x1) + 3 * x1) * (x2 - x1) * y2
    ELSE IF y2 = 0 THEN ((x2 - x1) + 3 * x1) * (x2 - x1) * y1
    ELSE (x2 - x1) * (x2 - x1) * (2 * y2 + y1)
           + 3 * x1 * (x2 - x1) * (y1 + y2)

SegArea2(x1, x2, y1, y2) ==
    IF (y1 = 0 /\ y2 = 0) \/ x1 = x2 THEN 0
    ELSE IF y1 = y2 THEN 2 * (x2 - x1) * y1
    ELSE IF y1 = 0 THEN (x2 - x1) * y2
    ELSE IF y2 = 0 THEN (x2 - x1) * y1
    ELSE (x2 - x1) * (y1 + y2)

\* the loop over the segments lo .. hi, summed by halves
RECURSIVE Moment6(_, _, _, _)
Moment6(x, mfx, lo, hi) ==
    IF lo > hi THEN 0
    ELSE IF lo = hi THEN SegMoment6(x[lo - 1], x[lo], mfx[lo - 1], mfx[lo])
    ELSE Moment6(x, mfx, lo, (lo + hi) \div 2)
           + Moment6(x, mfx, ((lo + hi) \div 2) + 1, hi)

RECURSIVE Area2(_, _, _, _)
Area2(x, mfx, lo, hi) ==
    IF lo > hi THEN 0
    ELSE IF lo = hi THEN SegArea2(x[lo - 1], x[lo], mfx[lo - 1], mfx[lo])
    ELSE Area2(x, mfx, lo, (lo + hi) \div 2)
           + Area2(x, mfx, ((lo + hi) \div 2) + 1, hi)

\* (mutant) sum_moment_area returned without the division by sum_area
centroidNoArea(x, mfx) ==
    Score(Moment6(x, mfx, 2, Len(x)), 6 * XS * XS * YS)

\* sum_moment_area / sum_area as the rational num/den:
\* (m6 / (6 XS^2 YS)) / (a2 / (2 XS YS)) = m6 / (3 XS a2)
centroid(x, mfx) ==
    Score(Moment6(x, mfx, 2, Len(x)), 3 * XS * Area2(x, mfx, 2, Len(x)))

\* CrispValueCalculator.defuzz: NoScore stands for the ValueError raised when
\* the aggregated set is zero everywhere
Defuzz(cut) ==
    With(NewUniverse(cut), LAMBDA x :
    With([i \in 1 .. Len(x) |-> OutputAt(cut, x[i])], LAMBDA mfx :
        IF \A i \in 1 .. Len(x) : mfx[i] = 0 THEN NoScore
        ELSE centroid(x, mfx)))

\* ControlSystemSimulation.compute
Compute(lib, sim, rs) ==
    With(UpdateToCurrent(lib, sim.uid), LAMBDA upd :
    With(upd.simdata[sim.uid], LAMBDA e :
        IF \E v \in VarSet : e.input[v] = None
        THEN [lib |-> upd, sim |-> sim, raised |-> TRUE]
        ELSE
    With(Fuzzify(e.input), LAMBDA mu :
    With(ComputeRules(rs, mu, ClearFirst(rs, e.cut)), LAMBDA cut :
    With(Defuzz(cut), LAMBDA out :
        IF out = NoScore
        THEN [lib |-> Lib(upd.current,
                          Store(upd.simdata, sim.uid, [e EXCEPT !.cut = cut])),
              sim |-> sim, raised |-> TRUE]
        ELSE [lib |-> Lib(upd.current,
                          Store(upd.simdata, sim.uid,
                                [e EXCEPT !.cut = cut, !.output = out])),
              sim |-> [sim EXCEPT !.output = out], raised |-> FALSE])))))

\* ------------------------------------------------------------------------
\* Evaluation (fuzzy_system.py:127-156)

\* the loop over enumerate(rules, 1): one entry per rule of positive strength
ActiveRules(rs, data) ==
    With([i \in 1 .. Len(rs) |-> compute_rule_strength(rs[i], data)], LAMBDA st :
    With(SelectSeq([i \in 1 .. Len(rs) |-> i], LAMBDA i : st[i] > 0), LAMBDA ids :
        [j \in 1 .. Len(ids) |->
            [rule_id |-> ids[j],
             logic |-> rule_to_text(rs[ids[j]]),
             strength |-> RoundStrength(st[ids[j]])]]))

\* (mutant) sorted ascending and reversed: equal keys end in reverse order
SortInsertBefore(sorted, e) ==
    LET n == Cardinality({i \in 1 .. Len(sorted) :
                             sorted[i].strength > e.strength})
    IN  SubSeq(sorted, 1, n) \o <<e>> \o SubSeq(sorted, n + 1, Len(sorted))

\* list.sort(key=strength, reverse=True) is stable: an entry goes behind
\* every entry already placed whose key is not smaller
SortInsert(sorted, e) ==
    LET n == Cardinality({i \in 1 .. Len(sorted) :
                             sorted[i].strength >= e.strength})
    IN  SubSeq(sorted, 1, n) \o <<e>> \o SubSeq(sorted, n + 1, Len(sorted))

RECURSIVE SortLoop(_, _, _)
SortLoop(seq, i, sorted) ==
    IF i > Len(seq) THEN sorted
    ELSE With(SortInsert(sorted, seq[i]), LAMBDA s : SortLoop(seq, i + 1, s))

SortByStrength(seq) == With(seq, LAMBDA s : SortLoop(s, 1, <<>>))

\* what a call that raised leaves in place of the returned dict
NoResult == [inputs |-> <<>>, fuzzy_score |-> None,
             performance_level |-> "", applied_rules |-> <<>>]

\* sim.input[...] = data[...] for the five variables, in source order
RECURSIVE SetInputs(_, _, _, _)
SetInputs(lib, sim, data, k) ==
    IF k > NVars THEN [lib |-> lib, sim |-> sim]
    ELSE With(SetInput(lib, sim, VarNames[k], data[VarNames[k]]),
              LAMBDA s : SetInputs(s.lib, s.sim, data, k + 1))

\* the returned dict, from final_score = sim.output['performance']
Result(rs, data, final_score) ==
    [inputs |-> data,
     fuzzy_score |-> RoundScore(final_score),
     performance_level |-> get_performance_level(final_score),
     applied_rules |-> SortByStrength(ActiveRules(rs, data))]

\* evaluate_score(data), run without interruption
evaluate_score(lib, rs, data) ==
    With(SetInputs(lib, NewSimulation(lib), data, 1), LAMBDA s :
    With(Compute(s.lib, s.sim, rs), LAMBDA c :
        IF c.raised THEN [lib |-> c.lib, raised |-> TRUE, result |-> NoResult]
        ELSE [lib |-> c.lib, raised |-> FALSE,
              result |-> Result(rs, data, c.sim.output)]))

\* ------------------------------------------------------------------------
\* Inputs of the model

Vec(a, t, s, e, c) ==
    [attendance |-> a * Res, test_score |-> t * Res,
     assignment_score |-> s * Res, ethics |-> e * Res, cognitive |-> c * Res]

InRange(data) == \A v \in VarSet : 0 <= data[v] /\ data[v] <= UniverseMax * Res

\* values (in units) each input takes when one evaluation is examined
EvalUnits == {0, 25, 40, 50, 75, 100}
EvalInputs == [VarSet -> {u * Res : u \in EvalUnits}]

\* the library state when the module has been imported
InitLib == Lib([v \in VarSet |-> None], <<>>)

\* values (in units) of the requests the server is sent, some out of range
ReqInputs == {Vec(50, 50, 50, 50, 50), Vec(30, 40, 60, 70, 55),
              Vec(100, 50, 50, 50, 50), Vec(150, 50, 50, 50, 50),
              Vec(90, 85, 90, 95, 0 - 5)}

\* the inputs of two threads that evaluate at the same time
ConcInputs == {Vec(50, 50, 50, 50, 50), Vec(30, 40, 60, 70, 55)}

\* evaluate_score called on a freshly imported module
AloneResult ==
    [d \in ReqInputs \cup ConcInputs |->
        With(evaluate_score(InitLib, BuildRules, d),
             LAMBDA r : [raised |-> r.raised, result |-> r.result])]

InitShared ==
    /\ rules = BuildRules
    /\ current = InitLib.current
    /\ simdata = InitLib.simdata
    /\ log = <<>>
    /\ th = <<>>

\* ------------------------------------------------------------------------
\* One evaluation of an input drawn from EvalInputs

InitEval ==
    /\ InitShared
    /\ arg \in EvalInputs
    /\ ret = <<>>

EvalCall ==
    /\ ret = <<>>
    /\ \E r \in {evaluate_score(Lib(current, simdata), rules, arg)} :
           /\ ret' = <<[raised |-> r.raised, result |-> r.result]>>
           /\ current' = r.lib.current
           /\ simdata' = r.lib.simdata
    /\ UNCHANGED <<rules, log, th, arg>>

SpecEval == InitEval /\ [][EvalCall]_vars

\* ------------------------------------------------------------------------
\* One evaluation of a reference input: every vector over 10, 50 and 100,
\* and the vector (90, 85, 88, 92, 80)

ScenarioUnits == {10, 50, 100}
ScenarioInputs ==
    [VarSet -> {u * Res : u \in ScenarioUnits}] \cup {Vec(90, 85, 88, 92, 80)}

InitScenario ==
    /\ InitShared
    /\ arg \in ScenarioInputs
    /\ ret = <<>>

SpecScenario == InitScenario /\ [][EvalCall]_vars

\* ------------------------------------------------------------------------
\* One evaluation of an input whose values lie on the 1.25-unit grid, some
\* of them with a score just under a threshold of the level bands

\* values in ticks: 0, 51.25, 58.75 and 71.25
RoundingTicks == {0, 51 * Res + Res \div 4, 59 * Res - Res \div 4,
                  71 * Res + Res \div 4}
RoundingInputs == [VarSet -> RoundingTicks]

InitRounding ==
    /\ InitShared
    /\ arg \in RoundingInputs
    /\ ret = <<>>

SpecRounding == InitRounding /\ [][EvalCall]_vars

\* ------------------------------------------------------------------------
\* The request paths that reach evaluate_score (api_router.py).  A handler
\* is `async def` and calls evaluate_score without awaiting in between, so
\* on the event loop one evaluation runs to its end before the next starts.

MaxRequests == 2

\* EvaluationInput: Field(..., ge=0, le=100) on each of the five values
ValidEvaluationInput(data) ==
    \A v \in VarSet : data[v] >= 0 /\ data[v] <= 100 * Res

Logged(path, data, called, status, result) ==
    [path |-> path, data |-> data, called |-> called, status |-> status,
     result |-> result]

\* POST /evaluate
evaluate_student(data) ==
    IF ~ValidEvaluationInput(data)
    THEN /\ log' = Append(log, Logged("evaluate", data, FALSE, 422, NoResult))
         /\ UNCHANGED <<current, simdata>>
    ELSE \E r \in {evaluate_score(Lib(current, simdata), rules, data)} :
           /\ log' = Append(log, Logged("evaluate", data, TRUE,
                                        IF r.raised THEN 500 ELSE 200, r.result))
           /\ current' = r.lib.current
           /\ simdata' = r.lib.simdata

\* POST /suggestion: check_llm_status answers 503 when the LLM is down; the
\* suggestion text may report an error, which the handler turns into a 500
get_ai_suggestion_endpoint(data, llm) ==
    IF llm = "down"
    THEN /\ log' = Append(log, Logged("suggestion", data, FALSE, 503, NoResult))
         /\ UNCHANGED <<current, simdata>>
    ELSE IF ~ValidEvaluationInput(data)
    THEN /\ log' = Append(log, Logged("suggestion", data, FALSE, 422, NoResult))
         /\ UNCHANGED <<current, simdata>>
    ELSE \E r \in {evaluate_score(Lib(current, simdata), rules, data)} :
           /\ log' = Append(log,
                        IF r.raised \/ llm = "error"
                        THEN Logged("suggestion", data, TRUE, 500, NoResult)
                        ELSE Logged("suggestion", data, TRUE, 200, r.result))
           /\ current' = r.lib.current
           /\ simdata' = r.lib.simdata

\* GET /report/download: bare float query parameters
download_pdf_report(data) ==
    \E r \in {evaluate_score(Lib(current, simdata), rules, data)} :
        /\ log' = Append(log, Logged("report", data, TRUE,
                                     IF r.raised THEN 500 ELSE 200, r.result))
        /\ current' = r.lib.current
        /\ simdata' = r.lib.simdata

Init ==
    /\ InitShared
    /\ arg = <<>>
    /\ ret = <<>>

\* (mutant) a handler that also drops the first rule of the list
EvaluateRequestDropsRule ==
    /\ Len(log) < MaxRequests
    /\ \E data \in ReqInputs : evaluate_student(data)
    /\ rules' = Tail(rules)
    /\ UNCHANGED <<th, arg, ret>>

EvaluateRequest ==
    /\ Len(log) < MaxRequests
    /\ \E data \in ReqInputs : evaluate_student(data)
    /\ UNCHANGED <<rules, th, arg, ret>>

SuggestionRequest ==
    /\ Len(log) < MaxRequests
    /\ \E data \in ReqInputs, llm \in {"down", "error", "ok"} :
          get_ai_suggestion_endpoint(data, llm)
    /\ UNCHANGED <<rules, th, arg, ret>>

ReportRequest ==
    /\ Len(log) < MaxRequests
    /\ \E data \in ReqInputs : download_pdf_report(data)
    /\ UNCHANGED <<rules, th, arg, ret>>

Next == EvaluateRequest \/ SuggestionRequest \/ ReportRequest

Spec == Init /\ [][Next]_vars

\* ------------------------------------------------------------------------
\* Two threads inside evaluate_score at once (callers from a thread pool).
\* A thread's steps are the statements of fuzzy_system.py:128-156 that read
\* or write the library's shared state, each taken as one step.

Threads == {1, 2}

ThreadStart(data) ==
    [pc |-> "new", k |-> 1, data |-> data,
     sim |-> [uid |-> InitLib.current, output |-> NoScore],
     final_score |-> NoScore, result |-> NoResult]

InitConc ==
    /\ rules = BuildRules
    /\ current = InitLib.current
    /\ simdata = InitLib.simdata
    /\ log = <<>>
    /\ arg = <<>>
    /\ ret = <<>>
    /\ \E d1 \in ConcInputs, d2 \in ConcInputs :
          /\ d1 /= d2
          /\ th = [t \in Threads |-> ThreadStart(IF t = 1 THEN d1 ELSE d2)]

\* sim = ctrl.ControlSystemSimulation(PERFORMANCE_CTRL)
ThreadNew(t) ==
    /\ th[t].pc = "new"
    /\ th' = [th EXCEPT ![t].sim = NewSimulation(Lib(current, simdata)),
                        ![t].pc = "input"]
    /\ UNCHANGED <<rules, current, simdata, log, arg, ret>>

\* sim.input[name] = data[name], the k-th of the five assignments
ThreadInput(t) ==
    /\ th[t].pc = "input"
    /\ \E s \in {SetInput(Lib(current, simdata), th[t].sim,
                          VarNames[th[t].k], th[t].data[VarNames[th[t].k]])} :
          /\ current' = s.lib.current
          /\ simdata' = s.lib.simdata
          /\ th' = [th EXCEPT ![t].sim = s.sim,
                              ![t].k = @ + 1,
                              ![t].pc = IF th[t].k = NVars THEN "compute"
                                        ELSE "input"]
    /\ UNCHANGED <<rules, log, arg, ret>>

\* sim.compute()
ThreadCompute(t) ==
    /\ th[t].pc = "compute"
    /\ \E c \in {Compute(Lib(current, simdata), th[t].sim, rules)} :
          /\ current' = c.lib.current
          /\ simdata' = c.lib.simdata
          /\ th' = [th EXCEPT ![t].sim = c.sim,
                              ![t].pc = IF c.raised THEN "raised" ELSE "output"]
    /\ UNCHANGED <<rules, log, arg, ret>>

\* final_score = sim.output['performance']
ThreadOutput(t) ==
    /\ th[t].pc = "output"
    /\ th' = [th EXCEPT ![t].final_score = th[t].sim.output,
                        ![t].pc = "rules"]
    /\ UNCHANGED <<rules, current, simdata, log, arg, ret>>

\* the loop over the rules, the sort and the return
ThreadRules(t) ==
    /\ th[t].pc = "rules"
    /\ th' = [th EXCEPT ![t].result = Result(rules, th[t].data,
                                             th[t].final_score),
                        ![t].pc = "done"]
    /\ UNCHANGED <<rules, current, simdata, log, arg, ret>>

NextConc ==
    \E t \in Threads :
        \/ ThreadNew(t)
        \/ ThreadInput(t)
        \/ ThreadCompute(t)
        \/ ThreadOutput(t)
        \/ ThreadRules(t)

SpecConc == InitConc /\ [][NextConc]_vars

\* ------------------------------------------------------------------------
\* get_performance_level applied to a score drawn from a bounded set

\* scores n/4 for n = 0 .. 4 * 100: every quarter point of the scale
ScoreSamples == {Score(n, 4) : n \in 0 .. 4 * UniverseMax}

InitLevel ==
    /\ InitShared
    /\ arg \in ScoreSamples
    /\ ret = <<>>

LevelCall ==
    /\ ret = <<>>
    /\ ret' = <<get_performance_level(arg)>>
    /\ UNCHANGED <<rules, current, simdata, log, th, arg>>

SpecLevel == InitLevel /\ [][LevelCall]_vars

\* ------------------------------------------------------------------------
\* The rule trace (fuzzy_system.py:138-149) on inputs finer than the grid on
\* which the model can carry the defuzzified score

\* values in ticks: 49.998 and 50.002 lie within 0.0025 of the point where
\* low and high reach 0, 25.002 just above the point where medium leaves 0
FineTicks == {0, 25 * Res + 1, 50 * Res - 1, 50 * Res + 1, 100 * Res}
FineInputs == [VarSet -> FineTicks]

InitExplain ==
    /\ InitShared
    /\ arg \in FineInputs
    /\ ret = <<>>

ExplainCall ==
    /\ ret = <<>>
    /\ ret' = <<SortByStrength(ActiveRules(rules, arg))>>
    /\ UNCHANGED <<rules, current, simdata, log, th, arg>>

SpecExplain == InitExplain /\ [][ExplainCall]_vars

\* ------------------------------------------------------------------------
\* The membership of a point of the universe in one term: what
\* fuzz.interp_membership reads off the sampled array of the term

\* every quarter point of 0 .. 100, in ticks
MemberPoints == {k * (Res \div 4) : k \in 0 .. 4 * UniverseMax}

MemberArgs ==
    [term : DOMAIN InputMF, p : MemberPoints]
        \cup [term : DOMAIN OutputMF, p : MemberPoints]

\* the sampled array of a term and the value of membership 1.0 in its scale
TermMF(t) == IF t \in DOMAIN InputMF THEN InputMF[t] ELSE OutputMF[t]
TermOne(t) == IF t \in DOMAIN InputMF THEN InScale * Res ELSE OutScale * Res

InitMember ==
    /\ InitShared
    /\ arg \in MemberArgs
    /\ ret = <<>>

MemberCall ==
    /\ ret = <<>>
    /\ ret' = <<interp_membership(TermMF(arg.term), arg.p, Res)>>
    /\ UNCHANGED <<rules, current, simdata, log, th, arg>>

SpecMember == InitMember /\ [][MemberCall]_vars

\* ------------------------------------------------------------------------
\* compute_rule_strength applied to one rule and one input, on a freshly
\* imported module and on one that has evaluated an input before

\* values in ticks: 30 (low 0.4, medium 0.2), 49.998 (low 0.00004, medium
\* 0.99992) and 60 (medium 0.6, high 0.2)
StrengthTicks == {30 * Res, 50 * Res - 1, 60 * Res}
StrengthInputs == [VarSet -> StrengthTicks]

InitStrength ==
    /\ \E lib \in {InitLib,
                    evaluate_score(InitLib, BuildRules,
                                   Vec(50, 50, 50, 50, 50)).lib} :
          /\ current = lib.current
          /\ simdata = lib.simdata
    /\ rules = BuildRules
    /\ log = <<>>
    /\ th = <<>>
    /\ arg \in [rule : 1 .. Len(BuildRules), data : StrengthInputs]
    /\ ret = <<>>

StrengthCall ==
    /\ ret = <<>>
    /\ ret' = <<compute_rule_strength(rules[arg.rule], arg.data)>>
    /\ UNCHANGED <<rules, current, simdata, log, th, arg>>

SpecStrength == InitStrength /\ [][StrengthCall]_vars

\* ------------------------------------------------------------------------
\* Properties

\* the defuzzified value the last call left for the inputs now current
LastOutput == Entry(simdata, UniqueId(current)).output

Applied == ret[1].result.applied_rules

\* C1: under SpecEval, for every input vector in [0,100]^5 evaluate_score
\* returns (it does not raise) and the returned score, exact and rounded to
\* two decimals, lies in [0,100] and is a defined number.
C1_ScoreInRange ==
    (ret /= <<>> /\ InRange(arg)) =>
        /\ ~ret[1].raised
        /\ ret[1].result.fuzzy_score >= 0
        /\ ret[1].result.fuzzy_score <= 100 * 100
        /\ LastOutput.den > 0
        /\ LastOutput.num >= 0
        /\ LastOutput.num <= 100 * LastOutput.den

C1_Witness ==
    /\ ret /= <<>>
    /\ arg = Vec(100, 100, 100, 100, 100)
    /\ ~ret[1].raised
    /\ ret[1].result.fuzzy_score = 9333

\* C2: under SpecEval, for every input vector in [0,100]^5 some rule has a
\* strictly positive firing strength; so the area under the aggregated set
\* (the centroid's denominator) is not zero, the call does not fail for want
\* of a fired rule, and applied_rules is not empty.
C2_DomainCovered ==
    InRange(arg) =>
        /\ \E i \in 1 .. Len(rules) : compute_rule_strength(rules[i], arg) > 0
        /\ ret /= <<>> =>
              /\ ~ret[1].raised
              /\ LastOutput.den /= 0
              /\ Len(Applied) >= 1

C2_Witness ==
    /\ ret /= <<>>
    /\ arg = Vec(50, 25, 75, 50, 25)
    /\ Len(Applied) = 1

\* C3: after module initialisation the rule base holds exactly 3^5 = 243
\* rules, every rule has five antecedent terms (one per input variable), no
\* two rules share an antecedent, and every combination of low, medium, high
\* over the five variables is the antecedent of exactly one rule.
C3_RuleBaseComplete ==
    LET ants == {rules[i].antecedent : i \in 1 .. Len(rules)}
        T == {terms[k] : k \in 1 .. Len(terms)}
    IN  /\ Len(rules) = 243
        /\ \A i \in 1 .. Len(rules) : Len(rules[i].antecedent) = 5
        /\ Cardinality(ants) = Len(rules)
        /\ ants = [1 .. 5 -> T]

C3_Witness ==
    /\ log /= <<>>
    /\ Len(rules) = 243
    /\ rules[1].antecedent = <<"low", "low", "low", "low", "low">>
    /\ rules[243].antecedent = <<"high", "high", "high", "high", "high">>

\* C4: for every rule, with h the number of its antecedent terms equal to
\* high and m the number equal to medium, the consequent is excellent if
\* h >= 4, otherwise good if h >= 3, otherwise average if m >= 3, otherwise
\* weak; every rule has exactly one of the four output terms.
C4_ConsequentByCounts ==
    \A i \in 1 .. Len(rules) :
        LET a == rules[i].antecedent
            h == Cardinality({k \in DOMAIN a : a[k] = "high"})
            m == Cardinality({k \in DOMAIN a : a[k] = "medium"})
            c == rules[i].consequent
        IN  /\ c \in {"weak", "average", "good", "excellent"}
            /\ h >= 4 => c = "excellent"
            /\ h = 3 => c = "good"
            /\ (h < 3 /\ m >= 3) => c = "average"
            /\ (h < 3 /\ m < 3) => c = "weak"

C4_Witness ==
    /\ log /= <<>>
    /\ \E i \in 1 .. Len(rules) :
          /\ rules[i].antecedent = <<"high", "high", "high", "high", "low">>
          /\ rules[i].consequent = "excellent"
    /\ \E i \in 1 .. Len(rules) :
          /\ rules[i].antecedent = <<"high", "high", "high", "medium", "medium">>
          /\ rules[i].consequent = "good"

\* C5: get_performance_level maps a score to Weak when score < 40, Average
\* when 40 <= score < 65, Good when 65 <= score < 85 and Excellent when
\* score >= 85, so 40, 65 and 85 themselves fall in the upper band.
C5_LevelBands ==
    ret /= <<>> =>
        LET n == arg.num
            d == arg.den
        IN  /\ ret[1] = "Weak" <=> n < 40 * d
            /\ ret[1] = "Average" <=> (40 * d <= n /\ n < 65 * d)
            /\ ret[1] = "Good" <=> (65 * d <= n /\ n < 85 * d)
            /\ ret[1] = "Excellent" <=> n >= 85 * d

C5_Witness ==
    \/ arg = Score(4 * 40, 4) /\ ret = <<"Average">>
    \/ arg = Score(4 * 65, 4) /\ ret = <<"Good">>
    \/ arg = Score(4 * 85, 4) /\ ret = <<"Excellent">>

\* C6 (as claimed): under SpecExplain, every entry of applied_rules has a
\* reported strength (rounded to 4 decimals, here in 1/10000) in (0,1], and
\* every rule whose firing strength is zero is left out.
C6_ReportedStrengthPositive ==
    ret /= <<>> =>
        /\ \A j \in 1 .. Len(ret[1]) :
              ret[1][j].strength >= 1 /\ ret[1][j].strength <= 10000
        /\ \A i \in 1 .. Len(rules) :
              compute_rule_strength(rules[i], arg) = 0 =>
                  \A j \in 1 .. Len(ret[1]) : ret[1][j].rule_id /= i

\* C7: under SpecEval, applied_rules is in non-increasing order of strength
\* and entries of equal strength are in ascending order of rule id.
C7_SortedStable ==
    ret /= <<>> =>
        \A j \in 1 .. Len(Applied) : \A k \in j + 1 .. Len(Applied) :
            \/ Applied[j].strength > Applied[k].strength
            \/ /\ Applied[j].strength = Applied[k].strength
               /\ Applied[j].rule_id < Applied[k].rule_id

C7_Witness ==
    /\ ret /= <<>>
    /\ Len(Applied) = 32
    /\ \E j \in 1 .. Len(Applied) - 1 :
          Applied[j].strength = Applied[j + 1].strength
    /\ \E j \in 1 .. Len(Applied) - 1 :
          Applied[j].strength > Applied[j + 1].strength

\* C8 (as claimed): a request with any of the five values outside [0,100]
\* is rejected before evaluate_score runs and carries no score, on every
\* path.
C8_OutOfRangeRejected ==
    \A i \in 1 .. Len(log) :
        ~InRange(log[i].data) =>
            /\ ~log[i].called
            /\ log[i].status /= 200
            /\ log[i].result = NoResult

\* C9 (as claimed): under SpecConc, whatever the interleaving, a thread that
\* returns from evaluate_score returns what the call returns when run alone.
C9_IsolatedResults ==
    \A t \in DOMAIN th :
        th[t].pc = "done" => th[t].result = AloneResult[th[t].data].result

\* C10: the result of evaluate_score depends on its input only: whatever
\* calls came before, a call returns what the same input returns on a
\* freshly imported module, so two calls with the same input agree.
C10_ResultFromInputOnly ==
    /\ \A i \in 1 .. Len(log) :
          (log[i].called /\ log[i].status = 200) =>
              /\ ~AloneResult[log[i].data].raised
              /\ log[i].result = AloneResult[log[i].data].result
    /\ \A i \in 1 .. Len(log) : \A j \in 1 .. Len(log) :
          (log[i].data = log[j].data /\ log[i].status = 200
             /\ log[j].status = 200) => log[i].result = log[j].result

C10_Witness ==
    /\ Len(log) >= 2
    /\ log[1].status = 200
    /\ log[2].status = 200
    /\ log[1].data /= log[2].data
    /\ log[1].result.fuzzy_score /= log[2].result.fuzzy_score

C12_MembershipShape ==
    ret /= <<>> =>
        LET abc == CASE arg.term = "low"       -> <<0, 0, 50>>
                     [] arg.term = "medium"    -> <<25, 50, 75>>
                     [] arg.term = "high"      -> <<50, 100, 100>>
                     [] arg.term = "weak"      -> <<0, 0, 40>>
                     [] arg.term = "average"   -> <<35, 50, 65>>
                     [] arg.term = "good"      -> <<60, 75, 85>>
                     [] arg.term = "excellent" -> <<80, 100, 100>>
            one == TermOne(arg.term)
        IN  /\ ret[1] >= 0
            /\ ret[1] <= one
            /\ (arg.p < abc[1] * Res \/ arg.p > abc[3] * Res) => ret[1] = 0
            /\ arg.p = abc[2] * Res => ret[1] = one

C12_Witness ==
    /\ ret /= <<>>
    /\ arg = [term |-> "low", p |-> 0]
    /\ ret[1] = TermOne("low")

\* C13: under SpecScenario, when all five inputs are 50 evaluate_score
\* returns the level Average, and the first entry of applied_rules is the
\* rule whose five antecedent terms are medium, with strength 1.0.
C13_ScenarioAllFifty ==
    (ret /= <<>> /\ arg = Vec(50, 50, 50, 50, 50)) =>
        /\ ~ret[1].raised
        /\ ret[1].result.performance_level = "Average"
        /\ Len(Applied) >= 1
        /\ Applied[1].logic[1] = <<"medium", "medium", "medium", "medium", "medium">>
        /\ rules[Applied[1].rule_id].antecedent = Applied[1].logic[1]
        /\ Applied[1].strength = 10000

C13_Witness ==
    /\ ret /= <<>>
    /\ arg = Vec(50, 50, 50, 50, 50)
    /\ ret[1].result.fuzzy_score = 5000
    /\ Applied[1].rule_id = 122

\* C14: under SpecScenario, (90, 85, 88, 92, 80) gives Excellent with a
\* score of at least 85; all five inputs 10 give Weak with a score below 40;
\* all five inputs 100 give a score of at least 85 and every entry of
\* applied_rules that has the top strength is a rule with consequent
\* excellent.
C14_ReferenceScenarios ==
    ret /= <<>> =>
        /\ arg = Vec(90, 85, 88, 92, 80) =>
              /\ ~ret[1].raised
              /\ ret[1].result.performance_level = "Excellent"
              /\ ret[1].result.fuzzy_score >= 85 * 100
              /\ LastOutput.num >= 85 * LastOutput.den
        /\ arg = Vec(10, 10, 10, 10, 10) =>
              /\ ~ret[1].raised
              /\ ret[1].result.performance_level = "Weak"
              /\ ret[1].result.fuzzy_score < 40 * 100
              /\ LastOutput.num < 40 * LastOutput.den
        /\ arg = Vec(100, 100, 100, 100, 100) =>
              /\ ~ret[1].raised
              /\ ret[1].result.fuzzy_score >= 85 * 100
              /\ LastOutput.num >= 85 * LastOutput.den
              /\ Len(Applied) >= 1
              /\ \A j \in 1 .. Len(Applied) :
                    Applied[j].strength = Applied[1].strength =>
                        /\ Applied[j].logic[2] = "excellent"
                        /\ rules[Applied[j].rule_id].consequent = "excellent"

C14_Witness ==
    /\ ret /= <<>>
    /\ arg = Vec(90, 85, 88, 92, 80)
    /\ ret[1].result.fuzzy_score = 9257
    /\ ret[1].result.performance_level = "Excellent"
    /\ Applied[1].rule_id = 243
    /\ Applied[1].strength = 6000

\* C15: under SpecStrength, for every rule and input, compute_rule_strength
\* returns the least of the five memberships of the input values in the
\* rule's antecedent terms, each value taken under the name of the term's
\* own variable; the result is in [0,1], is the same whether or not the
\* library has evaluated anything before, and is 0 exactly when one of the
\* five memberships is 0.
C15_StrengthIsMin ==
    ret /= <<>> =>
        LET a == rules[arg.rule].antecedent
            m == [k \in 1 .. 5 |->
                     interp_membership(InputMF[a[k]], arg.data[VarNames[k]], Res)]
        IN  /\ \A k \in 1 .. 5 : ret[1] <= m[k]
            /\ \E k \in 1 .. 5 : ret[1] = m[k]
            /\ ret[1] >= 0
            /\ ret[1] <= MuOne
            /\ ret[1] = 0 <=> \E k \in 1 .. 5 : m[k] = 0

C15_Witness ==
    /\ ret /= <<>>
    /\ DOMAIN simdata /= {}
    /\ rules[arg.rule].antecedent = <<"low", "medium", "medium", "medium", "high">>
    /\ arg.data = [attendance |-> 30 * Res, test_score |-> 30 * Res,
                    assignment_score |-> 50 * Res - 1, ethics |-> 60 * Res,
                    cognitive |-> 60 * Res]
    /\ ret[1] = MuOne \div 5

\* C16: under Spec, the rule with id i (its place in the list, 1 .. 243)
\* has as antecedent the five base-3 digits of i - 1 read as low < medium <
\* high, attendance the most significant and cognitive the least: id 1 is
\* all low, id 122 all medium, id 243 all high; and in every evaluation an
\* entry of applied_rules carries the antecedent that belongs to its id.
C16_RuleIdsLexicographic ==
    LET digit(i, k) == terms[(((i - 1) \div (3 ^ (5 - k))) % 3) + 1]
        antecedentOf(i) == [k \in 1 .. 5 |-> digit(i, k)]
    IN  /\ Len(rules) = 243
        /\ \A i \in 1 .. Len(rules) : rules[i].antecedent = antecedentOf(i)
        /\ rules[1].antecedent = <<"low", "low", "low", "low", "low">>
        /\ rules[122].antecedent = <<"medium", "medium", "medium", "medium", "medium">>
        /\ rules[243].antecedent = <<"high", "high", "high", "high", "high">>
        /\ \A n \in 1 .. Len(log) :
              \A j \in 1 .. Len(log[n].result.applied_rules) :
                  LET e == log[n].result.applied_rules[j]
                  IN  /\ e.rule_id \in 1 .. 243
                      /\ e.logic[1] = antecedentOf(e.rule_id)

C16_Witness ==
    \E n \in 1 .. Len(log) :
        /\ log[n].status = 200
        /\ Len(log[n].result.applied_rules) = 32
        /\ log[n].result.applied_rules[1].rule_id = 44
        /\ log[n].result.applied_rules[1].logic[1]
              = <<"low", "medium", "medium", "high", "medium">>

\* C18 (as claimed): for any two rules whose antecedents differ in exactly one
\* variable, the one with the higher term there (low < medium < high) has a
\* consequent that ranks no lower in weak < average < good < excellent.
C18_ConsequentMonotone ==
    LET rank(t) == CHOOSE n \in 1 .. Len(terms) : terms[n] = t
        outRank(t) == CHOOSE n \in 1 .. Len(out_terms) : out_terms[n] = t
        raised(c, d) ==
            \E k \in 1 .. 5 :
                /\ rank(d[k]) > rank(c[k])
                /\ \A m \in (1 .. 5) \ {k} : d[m] = c[m]
    IN  \A i \in 1 .. Len(rules) : \A j \in 1 .. Len(rules) :
            raised(rules[i].antecedent, rules[j].antecedent) =>
                outRank(rules[j].consequent) >= outRank(rules[i].consequent)

\* C17 (as claimed): under SpecRounding, in every result of evaluate_score
\* the reported level is the level of the reported fuzzy_score (rounded to
\* 2 decimals, here in 1/100): Weak below 40.00, Average from 40.00 and
\* below 65.00, Good from 65.00 and below 85.00, Excellent from 85.00.
C17_LevelOfReportedScore ==
    (ret /= <<>> /\ ~ret[1].raised) =>
        LET shown == ret[1].result.fuzzy_score
            level == ret[1].result.performance_level
        IN  /\ level = "Weak" <=> shown < 40 * 100
            /\ level = "Average" <=> (40 * 100 <= shown /\ shown < 65 * 100)
            /\ level = "Good" <=> (65 * 100 <= shown /\ shown < 85 * 100)
            /\ level = "Excellent" <=> shown >= 85 * 100

====
